---- MODULE Spec2Model ----
(***************************************************************************)
(* A model of the Fibonacci library (src/fibonacci.py) and of the two pi   *)
(* estimators (src/pi_simulation.py).  Every function is an operator that  *)
(* is computed as the Python code computes it and that yields the outcome  *)
(* of the call: the value returned or the exception raised, together with  *)
(* the number of loop iterations, recursive calls and random draws made.   *)
(* The memo cache of fib_by_cache is the one piece of state that outlives  *)
(* a call.  fib_by_matrix and pi_simulation_by_random are also stepped one *)
(* loop iteration at a time.                                               *)
(***************************************************************************)
EXTENDS Integers, Sequences, FiniteSets, TLC

\* Largest Fibonacci index passed to a function.
MaxN == 30
\* Most negative argument passed to a function.
MaxNeg == 2
\* Largest argument passed to a Binet variant.
MaxBinetN == 3
\* Largest grid size passed to pi_simulation.
MaxPiN == 6
\* Largest number of samples passed to pi_simulation_by_random.
MaxSamples == 2
\* random.random() yields k/Grid for k in RandomVals, a value in [0, 1).
Grid == 5

FibArgs == (0 - MaxNeg)..MaxN
BinetArgs == (0 - MaxNeg)..MaxBinetN
PiArgs == (0 - MaxNeg)..MaxPiN
RandomArgs == (0 - MaxNeg)..MaxSamples
RandomVals == {Grid - 2, Grid - 1}

VARIABLES
    cache,      \* the dict that cache_for_fib creates and fib_by_cache fills
    maxArg,     \* history: the largest n >= 0 passed to fib_by_cache, -1 before any
    pc,         \* "idle" between calls, or the loop the running call is in
    fn,         \* the function called last
    arg,        \* its argument n
    outcome,    \* "return", the exception raised, or "running"
    result,     \* the value returned
    steps,      \* loop iterations, recursive calls and random draws of the call
    a, b, c,    \* locals of fib_by_matrix
    bits,       \* the part of bin(n)[3:] that fib_by_matrix has yet to process
    count,      \* local of pi_simulation_by_random
    draws       \* history: the pairs (x, y) drawn by pi_simulation_by_random

vars == <<cache, maxArg, pc, fn, arg, outcome, result, steps, a, b, c, bits, count, draws>>

----------------------------------------------------------------------------
\* A Python float is kept as the exact quotient num/den of the one division
\* that produces it.
Float(x, y) == [num |-> x, den |-> y]

\* The value a call leaves in result: a Python int, a list of ints or a float.
NoVal == [kind |-> "none", int |-> 0, list |-> <<>>, num |-> 0, den |-> 1]
IntVal(v) == [kind |-> "int", int |-> v, list |-> <<>>, num |-> 0, den |-> 1]
ListVal(s) == [kind |-> "list", int |-> 0, list |-> s, num |-> 0, den |-> 1]
FloatVal(f) == [kind |-> "float", int |-> 0, list |-> <<>>, num |-> f.num, den |-> f.den]

\* The end of a call: the value returned or the exception raised, after k steps.
Return(v, k) == [outcome |-> "return", result |-> v, steps |-> k]
Raise(e, k) == [outcome |-> e, result |-> "None", steps |-> k]

\* x / float(y)
FloatDiv(x, y, k) ==
    IF y = 0 THEN Raise("ZeroDivisionError", k) ELSE Return(Float(x, y), k)

\* s[i] of a Python list
At(s, i) == s[i + 1]

----------------------------------------------------------------------------
\* The Fibonacci numbers of the recurrence F(0) = 0, F(1) = 1,
\* F(k) = F(k-1) + F(k-2), as the sequence <<F(0), ..., F(k)>>.
RECURSIVE FibPrefix(_)
FibPrefix(k) ==
    IF k = 0 THEN <<0>>
    ELSE IF k = 1 THEN <<0, 1>>
    ELSE LET s == FibPrefix(k - 1) IN Append(s, s[k] + s[k - 1])

FibNumbers == FibPrefix(MaxN + 2)

F(k) == FibNumbers[k + 1]

----------------------------------------------------------------------------
\* fib_by_recursive: steps counts the recursive calls made.
RECURSIVE fib_by_recursive(_)
fib_by_recursive(n) ==
    IF n < 0 THEN Raise("ValueError", 0)
    ELSE IF n <= 1 THEN Return(n, 0)
    ELSE LET r1 == fib_by_recursive(n - 1)
             r2 == fib_by_recursive(n - 2)
         IN  Return(r1.result + r2.result, r1.steps + r2.steps + 2)

\* for i in range(2, n + 1): a, b = b, a + b
RECURSIVE LoopFrom(_, _, _, _, _)
LoopFrom(x, y, i, n, k) ==
    IF i >= n + 1 THEN [a |-> x, b |-> y, steps |-> k]
    ELSE LoopFrom(y, x + y, i + 1, n, k + 1)

\* The bug: for i in range(2, n)
fib_by_loop_short(n) ==
    IF n < 0 THEN Raise("ValueError", 0)
    ELSE IF n <= 1 THEN Return(n, 0)
    ELSE LET r == LoopFrom(0, 1, 2, n - 1, 0) IN Return(r.b, r.steps)

fib_by_loop(n) ==
    IF n < 0 THEN Raise("ValueError", 0)
    ELSE IF n <= 1 THEN Return(n, 0)
    ELSE LET r == LoopFrom(0, 1, 2, n, 0) IN Return(r.b, r.steps)

\* for i in range(2, n + 1): fibs.append(fibs[i - 1] + fibs[i - 2])
RECURSIVE DpFrom(_, _, _, _)
DpFrom(fibs, i, n, k) ==
    IF i >= n + 1 THEN [fibs |-> fibs, steps |-> k]
    ELSE DpFrom(Append(fibs, At(fibs, i - 1) + At(fibs, i - 2)), i + 1, n, k + 1)

fib_by_dp(n) ==
    IF n < 0 THEN Raise("ValueError", 0)
    ELSE LET r == DpFrom(<<0, 1>>, 2, n, 0) IN Return(r.fibs, r.steps)

\* cache = {0: 0, 1: 1}
cache_for_fib == (0 :> 0) @@ (1 :> 1)

\* cache[i] = v
SetItem(ch, i, v) == [j \in DOMAIN ch \cup {i} |-> IF j = i THEN v ELSE ch[j]]

\* for i in range(len(cache), n + 1): cache[i] = cache[i - 1] + cache[i - 2]
RECURSIVE CacheFrom(_, _, _, _)
CacheFrom(ch, i, n, k) ==
    IF i >= n + 1 THEN [cache |-> ch, steps |-> k, error |-> "none"]
    ELSE IF (i - 1) \notin DOMAIN ch \/ (i - 2) \notin DOMAIN ch
         THEN [cache |-> ch, steps |-> k, error |-> "KeyError"]
         ELSE CacheFrom(SetItem(ch, i, ch[i - 1] + ch[i - 2]), i + 1, n, k + 1)

\* The bug: cache[i] = cache[i - 1] + cache[i - 1]
RECURSIVE CacheFromDoubling(_, _, _, _)
CacheFromDoubling(ch, i, n, k) ==
    IF i >= n + 1 THEN [cache |-> ch, steps |-> k, error |-> "none"]
    ELSE CacheFromDoubling(SetItem(ch, i, ch[i - 1] + ch[i - 1]), i + 1, n, k + 1)

fib_by_cache_doubling(n, ch) ==
    IF n < 0 THEN [end |-> Raise("ValueError", 0), cache |-> ch]
    ELSE LET r == IF n \notin DOMAIN ch
                  THEN CacheFromDoubling(ch, Cardinality(DOMAIN ch), n, 0)
                  ELSE [cache |-> ch, steps |-> 0, error |-> "none"]
         IN  [end |-> Return(r.cache[n], r.steps), cache |-> r.cache]

\* The bug: for i in range(len(cache), n + 2)
fib_by_cache_overfill(n, ch) ==
    IF n < 0 THEN [end |-> Raise("ValueError", 0), cache |-> ch]
    ELSE LET r == IF n \notin DOMAIN ch
                  THEN CacheFrom(ch, Cardinality(DOMAIN ch), n + 1, 0)
                  ELSE [cache |-> ch, steps |-> 0, error |-> "none"]
         IN  [end |-> Return(r.cache[n], r.steps), cache |-> r.cache]

\* The bug: the dict is created by every call, cache = {0: 0, 1: 1} in inner.
fib_by_cache_fresh(n, ch) ==
    LET r == CacheFrom((0 :> 0) @@ (1 :> 1), 2, n, 0)
    IN  IF n < 0 THEN [end |-> Raise("ValueError", 0), cache |-> r.cache]
        ELSE [end |-> Return(r.cache[n], r.steps), cache |-> r.cache]

\* The call's end and the cache it leaves.
fib_by_cache(n, ch) ==
    IF n < 0 THEN [end |-> Raise("ValueError", 0), cache |-> ch]
    ELSE LET r == IF n \notin DOMAIN ch
                  THEN CacheFrom(ch, Cardinality(DOMAIN ch), n, 0)
                  ELSE [cache |-> ch, steps |-> 0, error |-> "none"]
         IN  IF r.error # "none" THEN [end |-> Raise(r.error, r.steps), cache |-> r.cache]
             ELSE IF n \notin DOMAIN r.cache
                  THEN [end |-> Raise("KeyError", r.steps), cache |-> r.cache]
                  ELSE [end |-> Return(r.cache[n], r.steps), cache |-> r.cache]

\* bin(n): the string "0b" followed by the binary digits of n >= 0.
RECURSIVE Digits(_)
Digits(n) ==
    IF n < 2 THEN <<IF n = 1 THEN "1" ELSE "0">>
    ELSE Append(Digits(n \div 2), IF n % 2 = 1 THEN "1" ELSE "0")

bin(n) == <<"0", "b">> \o Digits(n)

\* s[3:]
From3(s) == SubSeq(s, 4, Len(s))

\* The bug: a, b, c = a + b, a, c on a digit 1
MatrixBodyStaleC(x, y, z, i) ==
    LET tmp == y * y
        sq == [a |-> x * x + tmp, b |-> x * y + y * z, c |-> tmp + z * z]
    IN  IF i = "1" THEN [a |-> sq.a + sq.b, b |-> sq.a, c |-> sq.c] ELSE sq

\* One iteration of the loop of fib_by_matrix over the digit i.
MatrixBody(x, y, z, i) ==
    LET tmp == y * y
        sq == [a |-> x * x + tmp, b |-> x * y + y * z, c |-> tmp + z * z]
    IN  IF i = "1" THEN [a |-> sq.a + sq.b, b |-> sq.a, c |-> sq.b] ELSE sq

\* fib_by_binet and fib_by_binet_approx: the guard, then a float expression that
\* is not computed here; v stands for the int it yields.
fib_by_binet(n, v) ==
    IF n < 0 THEN Raise("ValueError", 0) ELSE Return(v, 0)

fib_by_binet_approx(n, v) ==
    IF n < 0 THEN Raise("ValueError", 0) ELSE Return(v, 0)

\* The ints the float expression of a Binet variant may yield for n >= 0: the
\* exact value of the formula is F(n), and rounding error may move int() or
\* round() of it to a neighbour.
BinetVals(n) == IF n < 0 THEN {0} ELSE {v \in {F(n) - 1, F(n), F(n) + 1} : v >= 0}

----------------------------------------------------------------------------
\* The bug: if x ** 2 + y ** 2 < n ** 2
RECURSIVE PiInnerStrict(_, _, _, _)
PiInnerStrict(x, y, n, cnt) ==
    IF y >= n + 1 THEN cnt
    ELSE PiInnerStrict(x, y + 1, n, IF x * x + y * y < n * n THEN cnt + 1 ELSE cnt)

\* for y in range(n + 1): if x ** 2 + y ** 2 <= n ** 2: count += 1
RECURSIVE PiInner(_, _, _, _)
PiInner(x, y, n, cnt) ==
    IF y >= n + 1 THEN cnt
    ELSE PiInner(x, y + 1, n, IF x * x + y * y <= n * n THEN cnt + 1 ELSE cnt)

\* for x in range(n + 1): ...
RECURSIVE PiOuter(_, _, _)
PiOuter(x, n, cnt) ==
    IF x >= n + 1 THEN cnt
    ELSE PiOuter(x + 1, n, PiInner(x, 0, n, cnt))

PiSteps(n) == IF n + 1 > 0 THEN (n + 1) * (n + 1) ELSE 0

\* The bug: no check of n before the loops.
pi_simulation_unguarded(n) ==
    FloatDiv(4 * PiOuter(0, n, 0), (n + 1) * (n + 1), PiSteps(n))

pi_simulation(n) ==
    IF n < 0 THEN Raise("ValueError", 0)
    ELSE FloatDiv(4 * PiOuter(0, n, 0), (n + 1) * (n + 1), PiSteps(n))

\* if x ** 2 + y ** 2 <= 1: count += 1, with x = p[1]/Grid and y = p[2]/Grid
RandomBody(cnt, p) ==
    IF p[1] * p[1] + p[2] * p[2] <= Grid * Grid THEN cnt + 1 ELSE cnt

\* The start of pi_simulation_by_random.
RandomGuard(n) == IF n < 0 THEN Raise("ValueError", 0) ELSE Return(0, 0)

\* return 4 * count / float(n)
RandomEnd(cnt, n, k) == FloatDiv(4 * cnt, n, k)

----------------------------------------------------------------------------
\* The calls whose outcome depends on n alone, computed once.
RecursiveTable == [n \in FibArgs |-> fib_by_recursive(n)]
LoopTable == [n \in FibArgs |-> fib_by_loop(n)]
DpTable == [n \in FibArgs |-> fib_by_dp(n)]
PiTable == [n \in PiArgs |-> pi_simulation(n)]

Init ==
    /\ cache = cache_for_fib
    /\ maxArg = 0 - 1
    /\ pc = "idle"
    /\ fn = "none"
    /\ arg = 0
    /\ outcome = "none"
    /\ result = NoVal
    /\ steps = 0
    /\ a = 0 /\ b = 0 /\ c = 0
    /\ bits = <<>>
    /\ count = 0
    /\ draws = <<>>

\* A call of f(n) begins: the locals of the call before it are gone.
Enter(f, n) ==
    /\ pc = "idle"
    /\ fn' = f
    /\ arg' = n

NoLocals == a' = 0 /\ b' = 0 /\ c' = 0 /\ bits' = <<>> /\ count' = 0 /\ draws' = <<>>

\* The call ends as r says, with the value v.
Leave(r, v) ==
    /\ pc' = "idle"
    /\ outcome' = r.outcome
    /\ result' = IF r.outcome = "return" THEN v ELSE NoVal
    /\ steps' = r.steps

Call_fib_by_recursive(n) ==
    /\ Enter("fib_by_recursive", n)
    /\ Leave(RecursiveTable[n], IntVal(RecursiveTable[n].result))
    /\ NoLocals
    /\ UNCHANGED <<cache, maxArg>>

Call_fib_by_loop(n) ==
    /\ Enter("fib_by_loop", n)
    /\ Leave(LoopTable[n], IntVal(LoopTable[n].result))
    /\ NoLocals
    /\ UNCHANGED <<cache, maxArg>>

Call_fib_by_dp(n) ==
    /\ Enter("fib_by_dp", n)
    /\ Leave(DpTable[n], ListVal(DpTable[n].result))
    /\ NoLocals
    /\ UNCHANGED <<cache, maxArg>>

\* inner(n) of cache_for_fib: func(n, cached)
Call_fib_by_cache(n) ==
    LET r == fib_by_cache(n, cache)
    IN  /\ Enter("fib_by_cache", n)
        /\ Leave(r.end, IntVal(r.end.result))
        /\ cache' = r.cache
        /\ maxArg' = IF n > maxArg THEN n ELSE maxArg
        /\ NoLocals

Call_fib_by_matrix(n) ==
    /\ Enter("fib_by_matrix", n)
    /\ count' = 0 /\ draws' = <<>>
    /\ IF n < 0 THEN
            /\ Leave(Raise("ValueError", 0), NoVal)
            /\ a' = 0 /\ b' = 0 /\ c' = 0 /\ bits' = <<>>
       ELSE IF n <= 1 THEN
            /\ Leave(Return(n, 0), IntVal(n))
            /\ a' = 0 /\ b' = 0 /\ c' = 0 /\ bits' = <<>>
       ELSE /\ pc' = "matrix_loop"
            /\ outcome' = "running"
            /\ result' = NoVal
            /\ steps' = 0
            /\ a' = 1 /\ b' = 1 /\ c' = 0
            /\ bits' = From3(bin(n))
    /\ UNCHANGED <<cache, maxArg>>

MatrixStep ==
    /\ pc = "matrix_loop"
    /\ bits # <<>>
    /\ LET r == MatrixBody(a, b, c, Head(bits))
       IN  a' = r.a /\ b' = r.b /\ c' = r.c
    /\ bits' = Tail(bits)
    /\ steps' = steps + 1
    /\ UNCHANGED <<cache, maxArg, pc, fn, arg, outcome, result, count, draws>>

MatrixReturn ==
    /\ pc = "matrix_loop"
    /\ bits = <<>>
    /\ Leave(Return(b, steps), IntVal(b))
    /\ UNCHANGED <<cache, maxArg, fn, arg, a, b, c, bits, count, draws>>

Call_fib_by_binet(n) ==
    /\ Enter("fib_by_binet", n)
    /\ \E v \in BinetVals(n) : Leave(fib_by_binet(n, v), IntVal(v))
    /\ NoLocals
    /\ UNCHANGED <<cache, maxArg>>

Call_fib_by_binet_approx(n) ==
    /\ Enter("fib_by_binet_approx", n)
    /\ \E v \in BinetVals(n) : Leave(fib_by_binet_approx(n, v), IntVal(v))
    /\ NoLocals
    /\ UNCHANGED <<cache, maxArg>>

Call_pi_simulation(n) ==
    /\ Enter("pi_simulation", n)
    /\ Leave(PiTable[n], FloatVal(PiTable[n].result))
    /\ NoLocals
    /\ UNCHANGED <<cache, maxArg>>

Call_pi_simulation_by_random(n) ==
    LET r == RandomGuard(n)
    IN  /\ Enter("pi_simulation_by_random", n)
        /\ a' = 0 /\ b' = 0 /\ c' = 0 /\ bits' = <<>>
        /\ count' = 0 /\ draws' = <<>>
        /\ IF r.outcome # "return" THEN Leave(r, NoVal)
           ELSE /\ pc' = "random_loop"
                /\ outcome' = "running"
                /\ result' = NoVal
                /\ steps' = 0
        /\ UNCHANGED <<cache, maxArg>>

\* One iteration of for i in range(n): two calls of random.random().
RandomStep ==
    /\ pc = "random_loop"
    /\ Len(draws) < arg
    /\ \E x \in RandomVals, y \in RandomVals :
          /\ count' = RandomBody(count, <<x, y>>)
          /\ draws' = Append(draws, <<x, y>>)
    /\ steps' = steps + 2
    /\ UNCHANGED <<cache, maxArg, pc, fn, arg, outcome, result, a, b, c, bits>>

RandomReturn ==
    /\ pc = "random_loop"
    /\ Len(draws) >= arg
    /\ LET r == RandomEnd(count, arg, steps) IN Leave(r, FloatVal(r.result))
    /\ UNCHANGED <<cache, maxArg, fn, arg, a, b, c, bits, count, draws>>

Next ==
    \/ \E n \in FibArgs : Call_fib_by_recursive(n)
    \/ \E n \in FibArgs : Call_fib_by_loop(n)
    \/ \E n \in FibArgs : Call_fib_by_dp(n)
    \/ \E n \in FibArgs : Call_fib_by_cache(n)
    \/ \E n \in FibArgs : Call_fib_by_matrix(n)
    \/ MatrixStep
    \/ MatrixReturn
    \/ \E n \in BinetArgs : Call_fib_by_binet(n)
    \/ \E n \in BinetArgs : Call_fib_by_binet_approx(n)
    \/ \E n \in PiArgs : Call_pi_simulation(n)
    \/ \E n \in RandomArgs : Call_pi_simulation_by_random(n)
    \/ RandomStep
    \/ RandomReturn

Spec == Init /\ [][Next]_vars

----------------------------------------------------------------------------
Max(x, y) == IF x >= y THEN x ELSE y

RECURSIVE Pow2(_)
Pow2(k) == IF k = 0 THEN 1 ELSE 2 * Pow2(k - 1)

\* The number of binary digits of n >= 1.
BitLength(n) == CHOOSE k \in 1..(MaxN + 1) : Pow2(k - 1) <= n /\ n < Pow2(k)

\* The lattice points of the quarter disc of radius n.
LatticeCount(n) ==
    Cardinality({p \in (0..n) \X (0..n) : p[1] * p[1] + p[2] * p[2] <= n * n})

\* The drawn pairs that lie in the quarter disc of radius 1.
Inside(ds) ==
    Cardinality({i \in 1..Len(ds) : ds[i][1] * ds[i][1] + ds[i][2] * ds[i][2] <= Grid * Grid})

Exact == {"fib_by_recursive", "fib_by_loop", "fib_by_dp", "fib_by_cache", "fib_by_matrix"}

\* The Fibonacci number an exact variant returned: fib_by_dp(n)[n] or the int.
ExactValue == IF fn = "fib_by_dp" THEN At(result.list, arg) ELSE result.int

\* C1: for 0 <= n <= MaxN every call of one of the five exact variants returns
\* F(n) of the recurrence, which is also what fib_by_recursive, fib_by_loop,
\* fib_by_dp(n)[n] and fib_by_cache (on the cache as it is now) give for n;
\* fib_by_cache does so after any earlier calls.
C1_ExactVariantsAgree ==
    /\ F(0) = 0 /\ F(1) = 1
    /\ \A k \in 2..MaxN : F(k) = F(k - 1) + F(k - 2)
    /\ (pc = "idle" /\ fn \in Exact /\ arg \in 0..MaxN) =>
          /\ outcome = "return"
          /\ ExactValue = F(arg)
          /\ ExactValue = RecursiveTable[arg].result
          /\ ExactValue = LoopTable[arg].result
          /\ ExactValue = At(DpTable[arg].result, arg)
          /\ ExactValue = fib_by_cache(arg, cache).end.result

C1_Witness ==
    /\ pc = "idle" /\ fn = "fib_by_matrix" /\ arg = MaxN
    /\ outcome = "return" /\ result = IntVal(F(MaxN))
    /\ Cardinality(DOMAIN cache) > MaxN \div 2

\* C2: for every n >= 0, n = 0 included, fib_by_dp(n) returns a list of length
\* n + 1 whose element i is F(i).
C2_DpIsPrefix ==
    (pc = "idle" /\ fn = "fib_by_dp" /\ arg >= 0) =>
        /\ outcome = "return"
        /\ Len(result.list) = arg + 1
        /\ \A i \in 0..arg : At(result.list, i) = F(i)

\* C3: a call of any of the nine functions with a negative n ends in ValueError,
\* returns no value, and has made no loop iteration, recursive call or random
\* draw; it never enters a loop.
C3_NegativeRaises ==
    (fn # "none" /\ arg < 0) =>
        /\ pc = "idle"
        /\ outcome = "ValueError"
        /\ result = NoVal
        /\ steps = 0
        /\ draws = <<>> /\ bits = <<>>

C3_Witness ==
    /\ fn = "pi_simulation_by_random" /\ arg < 0
    /\ outcome = "ValueError" /\ steps = 0

\* C4: for every n >= 0, n = 0 included, and whatever is drawn,
\* pi_simulation_by_random(n) returns 4 * count / n, count being the number of
\* the n drawn pairs inside the quarter disc; its only error is ValueError.
C4_RandomReturns ==
    /\ fn = "pi_simulation_by_random" => outcome \in {"running", "return", "ValueError"}
    /\ (pc = "idle" /\ fn = "pi_simulation_by_random" /\ arg >= 0) =>
          /\ outcome = "return"
          /\ Len(draws) = arg
          /\ count = Inside(draws) /\ 0 <= count /\ count <= arg
          /\ result.kind = "float" /\ result.num = 4 * count /\ result.den = arg

\* C5: the cache only grows: a step removes no entry and changes no value; every
\* entry i is F(i) in every state; every fib_by_cache(n) that returns gives F(n).
C5_CacheGrows ==
    /\ [][\A i \in DOMAIN cache : i \in DOMAIN cache' /\ cache'[i] = cache[i]]_vars
    /\ [](\A i \in DOMAIN cache : cache[i] = F(i))
    /\ []((fn = "fib_by_cache" /\ arg >= 0) => (outcome = "return" /\ result = IntVal(F(arg))))

C5_Witness ==
    /\ fn = "fib_by_cache" /\ outcome = "return"
    /\ 2 <= arg /\ arg < maxArg /\ maxArg = MaxN
    /\ steps = 0

\* C6: the cache is {0: 0, 1: 1} until a call with n >= 0, and its keys are
\* always exactly 0..m for m = max(1, largest n >= 0 passed so far), so that
\* len(cache) is the largest key plus one.
C6_CacheContiguous ==
    /\ maxArg < 0 => cache = (0 :> 0) @@ (1 :> 1)
    /\ DOMAIN cache = 0..Max(1, maxArg)
    /\ \A i \in DOMAIN cache : i < Cardinality(DOMAIN cache)
    /\ (Cardinality(DOMAIN cache) - 1) \in DOMAIN cache

C6_Witness ==
    /\ fn = "fib_by_cache" /\ arg = MaxN /\ outcome = "return"
    /\ steps = MaxN - 1
    /\ DOMAIN cache = 0..MaxN

\* C7: for n >= 0 pi_simulation(n) returns 4 * count / (n + 1)^2, count being
\* the number of lattice points of the quarter disc, with
\* 1 <= count <= (n + 1)^2 and the result in (0, 4]; the result is a function
\* of n alone.
C7_PiSimulation ==
    (pc = "idle" /\ fn = "pi_simulation" /\ arg >= 0) =>
        /\ outcome = "return"
        /\ result.kind = "float"
        /\ result.num = 4 * LatticeCount(arg)
        /\ result.den = (arg + 1) * (arg + 1)
        /\ 1 <= LatticeCount(arg) /\ LatticeCount(arg) <= (arg + 1) * (arg + 1)
        /\ 0 < result.num /\ result.num <= 4 * result.den
        /\ steps = (arg + 1) * (arg + 1)

C7_Witness ==
    /\ pc = "idle" /\ fn = "pi_simulation" /\ arg = MaxPiN
    /\ outcome = "return" /\ result.num < 4 * result.den

\* C9: in fib_by_matrix(n), n >= 2, (a, b, c) = (F(m+1), F(m), F(m-1)) at the
\* start and after every digit, m being n without the digits yet to process
\* (n div 2^remaining, so 1 at the start); the loop runs bitlength(n) - 1 times
\* and the b returned is F(n), the value of fib_by_loop(n).
C9_MatrixTriple ==
    (fn = "fib_by_matrix" /\ arg >= 2) =>
        LET m == arg \div Pow2(Len(bits))
        IN  /\ a = F(m + 1) /\ b = F(m) /\ c = F(m - 1)
            /\ steps + Len(bits) = BitLength(arg) - 1
            /\ (steps = 0) = (m = 1)
            /\ pc = "idle" =>
                  /\ bits = <<>> /\ outcome = "return"
                  /\ steps = BitLength(arg) - 1
                  /\ result = IntVal(F(arg))
                  /\ result.int = LoopTable[arg].result

C9_Witness ==
    /\ pc = "matrix_loop" /\ fn = "fib_by_matrix"
    /\ steps >= 2 /\ bits = <<"1">>
    /\ a = F(arg \div 2 + 1)

\* C10: a fib_by_cache call with a negative n or with an n that is a key of the
\* cache leaves the cache as it was; so does every step that is not a
\* fib_by_cache call.
C10_CacheFrame ==
    /\ [][(Call_fib_by_cache(arg') /\ (arg' < 0 \/ arg' \in DOMAIN cache))
            => cache' = cache]_vars
    /\ [][(~ Call_fib_by_cache(arg')) => cache' = cache]_vars

C10_Witness ==
    /\ fn = "fib_by_cache" /\ arg < 0 /\ outcome = "ValueError"
    /\ Cardinality(DOMAIN cache) > 2
====
